---- MODULE Spec2Model ----
(***************************************************************************)
(* State-machine model of the Delicassy storefront backend (src/main.py,   *)
(* src/schemas.py): catalog, cart, checkout/order and content endpoints    *)
(* over a document store.                                                  *)
(*                                                                         *)
(* Conventions                                                             *)
(*  - A collection is a sequence of documents; the position of a document  *)
(*    is its store-generated ObjectId (ids are never reused, documents are *)
(*    never deleted).                                                      *)
(*  - An id string is a record [oid, form]: form "lower" is the canonical  *)
(*    24-digit lowercase hex text of ObjectId oid, "upper" the same digits *)
(*    in upper case (accepted by ObjectId(), never produced by str()), and *)
(*    "bad" a string ObjectId() rejects.  oid 0 is a well-formed id the    *)
(*    store never allocated.                                               *)
(*  - Money is an integer number of cents; round(x, 2) is rounding of an   *)
(*    exact quotient to the nearest cent, ties to even.  Python rounds the *)
(*    binary float, which can land a decimal tie (x.xx5) on either side;   *)
(*    no input within the bounds below produces such a tie.                *)
(*  - Every handler is one atomic action, except checkout: everything up   *)
(*    to the insertion of the order is one step, and each per-line stock   *)
(*    update of the trailing loop is a step of its own, so that requests   *)
(*    interleave and a store failure can hit between two updates.          *)
(***************************************************************************)
EXTENDS Integers, Sequences, FiniteSets, TLC

\* ------------------------------------------------------------------ bounds
MaxProducts  == 2
MaxCarts     == 2
MaxCheckoutCarts == 1
MaxLines     == 2
MaxCheckouts == 2
MaxReviews   == 1
MaxContent   == 1
MaxCartUpdates == 1

\* ------------------------------------------------------- program constants
BaseShipping         == 900
ShippingPerFragility == 250
PremiumPackagingFee  == 1400
InsuranceRatePct     == 2
DefaultFragility     == 3
DefaultPrice         == 0
MinFragility         == 1
MaxFragility         == 5
MinQuantity          == 1

\* ---------------------------------------------------------------- id text
Lower(oid) == [oid |-> oid, form |-> "lower"]
Upper(oid) == [oid |-> oid, form |-> "upper"]
UnknownId   == Lower(0)
MalformedId == [oid |-> 0, form |-> "bad"]
NoId        == [oid |-> 0, form |-> "none"]

\* bson.ObjectId(s): accepts 24 hex digits of either case, raises InvalidId otherwise.
ObjectIdValid(s) == s.form \in {"lower", "upper"}
ObjectId(s) == s.oid
\* str(ObjectId): always the lowercase hex text.
Str(oid) == Lower(oid)

\* The id strings a client can send for a collection holding n documents.
IdInputs(n) == {Lower(i) : i \in 1..n} \cup {Upper(i) : i \in 1..n} \cup {UnknownId, MalformedId}
CanonicalIdInputs(n) == {Lower(i) : i \in 1..n} \cup {UnknownId, MalformedId}

\* ----------------------------------------------------------------- helpers
RECURSIVE SumSeq(_)
SumSeq(s) == IF s = <<>> THEN 0 ELSE s[1] + SumSeq(Tail(s))

SeqsUpTo(S, n) == UNION {[1..k -> S] : k \in 0..n}

\* round(num/den, 2 decimals of a dollar) in cents: nearest, ties to even.
Round(num, den) ==
    LET q == num \div den
        r == num % den
    IN  IF 2 * r < den THEN q
        ELSE IF 2 * r > den THEN q + 1
        ELSE IF q % 2 = 0 THEN q ELSE q + 1

\* ------------------------------------------------------------------ schemas
ValidProduct(p) ==
    /\ p.price >= 0
    /\ p.stock >= 0
    /\ p.fragility_rating >= MinFragility
    /\ p.fragility_rating <= MaxFragility

ValidCartItem(it) == it.quantity >= MinQuantity

ValidItems(items) == \A i \in 1..Len(items) : ValidCartItem(items[i])

ValidReview(rv) == rv.rating >= 1 /\ rv.rating <= 5

ContentCollections == {"category", "packagingguide", "notification"}

\* -------------------------------------------------------------------- state
VARIABLES
    dbConnected,   \* database.db is not None (fixed at start-up)
    product,       \* collection "product": sequence of product documents
    cart,          \* collection "cart": sequence of [items]
    order,         \* collection "order"
    review,        \* collection "review"
    content,       \* category, packagingguide and notification documents stored (a count)
    req,           \* checkout requests in flight: handler locals and position
    response,      \* the response the last step sent, NoResponse if it sent none
    createdStock,  \* history: the stock each product was created with
    writtenItems,  \* history: the item list last written to each cart by init/update
    cartUpdates    \* history: successful cart updates so far, counted up to MaxCartUpdates

vars == <<dbConnected, product, cart, order, review, content, req, response,
          createdStock, writtenItems, cartUpdates>>

Resp(op, id, status, body) == [op |-> op, id |-> id, status |-> status, body |-> body]
NoResponse == Resp("none", NoId, 0, <<>>)

IdleReq == [pc |-> "idle", cart_id |-> NoId, items |-> <<>>, stock_read |-> <<>>,
            k |-> 0, order_id |-> 0]

Init ==
    /\ dbConnected \in BOOLEAN
    /\ product = <<>>
    /\ cart = <<>>
    /\ order = <<>>
    /\ review = <<>>
    /\ content = 0
    /\ req = [r \in 1..MaxCheckouts |-> IdleReq]
    /\ response = NoResponse
    /\ createdStock = <<>>
    /\ writtenItems = <<>>
    /\ cartUpdates = 0

StoreUnchanged == UNCHANGED <<product, cart, order, review, content, createdStock, writtenItems, cartUpdates>>

\* database.create_document(collection, doc): stores doc under a fresh id (the next
\* position) and returns the id.
create_document(collection, doc) == Append(collection, doc)

\* database.get_documents(collection, {"_id": oid}, limit=1) is not empty.
Exists(collection, oid) == oid \in 1..Len(collection)

\* A request answered with an error before it touched the store.
Reject(op, id, status, detail) ==
    /\ response' = Resp(op, id, status, <<detail>>)
    /\ StoreUnchanged
    /\ UNCHANGED <<dbConnected, req>>

\* ------------------------------------------------------------------ catalog
create_product(p) ==
    IF ~ValidProduct(p) THEN Reject("create_product", NoId, 422, "validation")
    ELSE IF ~dbConnected THEN Reject("create_product", NoId, 500, "Database not available")
    ELSE /\ Len(product) < MaxProducts
         /\ product' = create_document(product, p)
         /\ createdStock' = Append(createdStock, p.stock)
         /\ response' = Resp("create_product", Str(Len(product) + 1), 200, <<>>)
         /\ UNCHANGED <<dbConnected, cart, order, review, content, req, writtenItems, cartUpdates>>

\* get_documents("product", {"slug": slug}, limit=1): the first match in store order.
FirstWithSlug(slug) ==
    LET hits == {i \in 1..Len(product) : product[i].slug = slug}
    IN  IF hits = {} THEN 0 ELSE CHOOSE i \in hits : \A j \in hits : i <= j

\* The reviews joined onto a product: review.product_id = str(product._id).
ReviewsOf(oid) == {i \in 1..Len(review) : review[i].product_id = Str(oid)}

get_product_by_slug(slug) ==
    IF ~dbConnected THEN Reject("get_product_by_slug", NoId, 500, "Database not available")
    ELSE IF FirstWithSlug(slug) = 0 THEN Reject("get_product_by_slug", NoId, 404, "Not found")
    ELSE /\ response' = Resp("get_product_by_slug", Str(FirstWithSlug(slug)), 200,
                             <<ReviewsOf(FirstWithSlug(slug))>>)
         /\ StoreUnchanged
         /\ UNCHANGED <<dbConnected, req>>

add_review(rv) ==
    IF ~ValidReview(rv) THEN Reject("add_review", rv.product_id, 422, "validation")
    \* ObjectId(review.product_id) raises InvalidId, which nothing catches.
    ELSE IF ~ObjectIdValid(rv.product_id)
         THEN Reject("add_review", rv.product_id, 500, "InvalidId")
    ELSE IF ~dbConnected
         THEN Reject("add_review", rv.product_id, 500, "Database not available")
    ELSE IF ~Exists(product, ObjectId(rv.product_id))
         THEN Reject("add_review", rv.product_id, 404, "Product not found")
    ELSE /\ Len(review) < MaxReviews
         /\ review' = create_document(review, rv)
         /\ response' = Resp("add_review", rv.product_id, 200, <<>>)
         /\ UNCHANGED <<dbConnected, product, cart, order, content, req,
                        createdStock, writtenItems, cartUpdates>>

create_content(c) ==
    IF ~dbConnected THEN Reject("create_" \o c, NoId, 500, "Database not available")
    ELSE /\ content < MaxContent
         /\ content' = content + 1
         /\ response' = Resp("create_" \o c, NoId, 200, <<>>)
         /\ UNCHANGED <<dbConnected, product, cart, order, review, req,
                        createdStock, writtenItems, cartUpdates>>

\* --------------------------------------------------------------------- cart
init_cart(items) ==
    IF ~ValidItems(items) THEN Reject("init_cart", NoId, 422, "validation")
    ELSE IF ~dbConnected THEN Reject("init_cart", NoId, 500, "Database not available")
    ELSE /\ Len(cart) < MaxCarts
         /\ cart' = create_document(cart, [items |-> items])
         /\ writtenItems' = Append(writtenItems, items)
         /\ response' = Resp("init_cart", Str(Len(cart) + 1), 200, <<>>)
         /\ UNCHANGED <<dbConnected, product, order, review, content, req, createdStock, cartUpdates>>

\* to_obj_id without its except clause turning InvalidId into HTTP 400.
to_obj_id_unchecked(id) == TRUE

\* to_obj_id: HTTP 400 "Invalid id" for a string ObjectId() rejects.
to_obj_id_ok(id) == ObjectIdValid(id)

get_cart(id) ==
    IF ~to_obj_id_ok(id) THEN Reject("get_cart", id, 400, "Invalid id")
    ELSE IF ~dbConnected THEN Reject("get_cart", id, 500, "Database not available")
    ELSE IF ~Exists(cart, ObjectId(id)) THEN Reject("get_cart", id, 404, "Cart not found")
    ELSE /\ response' = Resp("get_cart", id, 200, cart[ObjectId(id)].items)
         /\ StoreUnchanged
         /\ UNCHANGED <<dbConnected, req>>

\* A per-line merge into the stored list, where the handler replaces it.
SetItemsMerged(old, items) == old \o items

\* {"$set": {"items": [...]}}: the stored item list after the update.
SetItems(old, items) == items

update_cart(id, items) ==
    IF ~ValidItems(items) THEN Reject("update_cart", id, 422, "validation")
    ELSE IF ~dbConnected THEN Reject("update_cart", id, 500, "Database not available")
    ELSE IF ~to_obj_id_ok(id) THEN Reject("update_cart", id, 400, "Invalid id")
    ELSE IF ObjectId(id) \notin 1..Len(cart) THEN Reject("update_cart", id, 404, "Cart not found")
    ELSE /\ cart' = [cart EXCEPT ![ObjectId(id)].items = SetItems(@, items)]
         /\ writtenItems' = [writtenItems EXCEPT ![ObjectId(id)] = items]
         /\ cartUpdates' = IF cartUpdates < MaxCartUpdates THEN cartUpdates + 1 ELSE cartUpdates
         /\ response' = Resp("update_cart", id, 200, <<>>)
         /\ UNCHANGED <<dbConnected, product, order, review, content, req, createdStock>>

\* ----------------------------------------------------------------- checkout
\* dict.get(key, default)
Get(map, key, default) == IF key \in DOMAIN map THEN map[key] ELSE default

\* db["product"].find({"_id": {"$in": product_ids}}): the ids of the documents found.
FindProducts(items) ==
    {ObjectId(items[i].product_id) : i \in 1..Len(items)} \cap (1..Len(product))

\* {str(p["_id"]): p["price"] for p in products}
price_map(found) == [s \in {Str(i) : i \in found} |-> product[ObjectId(s)].price]

\* {str(p["_id"]): p.get("fragility_rating", 3) for p in products}
fragility_map(found) ==
    [s \in {Str(i) : i \in found} |-> product[ObjectId(s)].fragility_rating]

\* sum(price_map.get(it["product_id"], 0) * it.get("quantity", 1) for it in items)
Subtotal(items, pm) ==
    SumSeq([i \in 1..Len(items) |->
              Get(pm, items[i].product_id, DefaultPrice) * items[i].quantity])

\* sum(fragility_map.get(it["product_id"], 3) for it in items); avg_fragility is
\* this sum over len(items), kept as the pair (sum, len) to stay exact.
FragilitySum(items, fm) ==
    SumSeq([i \in 1..Len(items) |-> Get(fm, items[i].product_id, DefaultFragility)])

\* round(subtotal * (0.02 + 0.02 * (avg_fragility - 1)), 2) if req.insured else 0
Insurance(subtotal, fsum, n, insured) ==
    IF insured
    THEN Round(subtotal * (InsuranceRatePct * n + InsuranceRatePct * (fsum - n)), 100 * n)
    ELSE 0

\* round(9.0 + (avg_fragility - 1) * 2.5, 2)
Shipping(fsum, n) == Round(BaseShipping * n + (fsum - n) * ShippingPerFragility, n)

\* 14.0 if req.premium_packaging else 0
PackagingFee(premium) == IF premium THEN PremiumPackagingFee ELSE 0

\* round(subtotal + shipping + insurance + premium_packaging_fee, 2)
Total(subtotal, shipping, insurance, fee) == Round(subtotal + shipping + insurance + fee, 1)

\* An order that keeps no copy of the lines it was priced from.
OrderItemsDropped(items) == <<>>

\* items=[CartItem(**i) for i in items]: the order's copy of the cart lines.
OrderItems(items) == items

\* Order.status defaults to "created"; checkout passes none.
OrderStatus == "created"

\* Order(...): the document checkout builds from the cart it read and the request.
BuildOrder(items, b) ==
    LET found    == FindProducts(items)
        subtotal == Subtotal(items, price_map(found))
        fsum     == FragilitySum(items, fragility_map(found))
        n        == Len(items)
        ins      == Insurance(subtotal, fsum, n, b.insured)
        ship     == Shipping(fsum, n)
    IN  [items            |-> OrderItems(items),
         amount_subtotal  |-> subtotal,
         amount_shipping  |-> ship,
         amount_insurance |-> ins,
         amount_total     |-> Total(subtotal, ship, ins, PackagingFee(b.premium_packaging)),
         shipping         |-> [insured |-> b.insured,
                               premium_packaging |-> b.premium_packaging],
         status           |-> OrderStatus]

\* Order's own validation: the four amounts are >= 0 and the embedded address and
\* payment dicts parse as Address and PaymentMethod.
ValidOrder(o, b) ==
    /\ o.amount_subtotal >= 0 /\ o.amount_shipping >= 0
    /\ o.amount_insurance >= 0 /\ o.amount_total >= 0
    /\ b.payload_valid

\* A checkout that empties the cart it has ordered.
CartCleared(c) == [c EXCEPT !.items = <<>>]

\* The cart document after a checkout that read it: checkout never writes it.
CartAfterCheckout(c) == c

\* Lines 153-187: resolve the cart, price it, insert the order.
checkout_begin(r, b) ==
    /\ req[r].pc = "idle"
    \* request slots are taken in order (they are interchangeable)
    /\ IF r = 1 THEN TRUE ELSE req[r - 1].pc # "idle"
    /\ IF ~to_obj_id_ok(b.cart_id) THEN Reject("checkout", b.cart_id, 400, "Invalid id")
       ELSE IF ~dbConnected
            THEN Reject("checkout", b.cart_id, 500, "Database not available")
       ELSE IF ~Exists(cart, ObjectId(b.cart_id))
            THEN Reject("checkout", b.cart_id, 404, "Cart not found")
       ELSE LET items == cart[ObjectId(b.cart_id)].items
                o     == BuildOrder(items, b)
            IN  IF items = <<>> THEN Reject("checkout", b.cart_id, 400, "Cart is empty")
                \* ObjectId(i["product_id"]) raises InvalidId, which nothing catches.
                ELSE IF \E i \in 1..Len(items) : ~ObjectIdValid(items[i].product_id)
                     THEN Reject("checkout", b.cart_id, 500, "InvalidId")
                ELSE IF ~ValidOrder(o, b)
                     THEN Reject("checkout", b.cart_id, 500, "ValidationError")
                ELSE /\ order' = create_document(order, o)
                     /\ cart' = [cart EXCEPT ![ObjectId(b.cart_id)] = CartAfterCheckout(@)]
                     /\ req' = [req EXCEPT ![r] =
                                  [pc |-> "dec", cart_id |-> b.cart_id, items |-> items,
                                   stock_read |-> [i \in FindProducts(items) |-> product[i].stock],
                                   k |-> 0, order_id |-> Len(order) + 1]]
                     /\ response' = NoResponse
                     /\ UNCHANGED <<dbConnected, product, review, content,
                                    createdStock, writtenItems, cartUpdates>>

\* A read-modify-write in the handler: {"$set": {"stock": p["stock"] - quantity}} with
\* p the product document the request read when it priced the cart.
StockFromRead(r, oid, quantity) == req[r].stock_read[oid] - quantity

\* {"$inc": {"stock": -1}}: a decrement that ignores the line's quantity.
StockAfterIncByOne(r, oid, quantity) == product[oid].stock - 1

\* {"$inc": {"stock": -quantity}}: the stock the store holds after the update, which
\* the server applies to the stored document in one atomic step.
StockAfterInc(r, oid, quantity) == product[oid].stock - quantity

\* Lines 190-191, one iteration; the response follows the last one (line 193).
checkout_decrement(r) ==
    /\ req[r].pc = "dec"
    /\ LET it  == req[r].items[req[r].k + 1]
           oid == ObjectId(it.product_id)
           last == req[r].k + 1 = Len(req[r].items)
       IN  /\ product' = IF oid \in 1..Len(product)
                         THEN [product EXCEPT ![oid].stock = StockAfterInc(r, oid, it.quantity)]
                         ELSE product
           /\ req' = [req EXCEPT ![r].k = @ + 1,
                                 ![r].pc = IF last THEN "done" ELSE "dec"]
           /\ response' = IF last
                          THEN Resp("checkout", req[r].cart_id, 200,
                                    <<req[r].order_id, order[req[r].order_id].amount_total>>)
                          ELSE NoResponse
    /\ UNCHANGED <<dbConnected, cart, order, review, content, createdStock, writtenItems, cartUpdates>>

\* A store failure in one update_one of the loop: the exception ends the request
\* with HTTP 500; nothing is undone.
checkout_fail(r) ==
    /\ req[r].pc = "dec"
    /\ req' = [req EXCEPT ![r].pc = "failed"]
    /\ response' = Resp("checkout", req[r].cart_id, 500, <<"store failure">>)
    /\ StoreUnchanged
    /\ UNCHANGED dbConnected

\* ------------------------------------------------------------ request inputs
Quantities == {1, 2}

Lines(ids) == [product_id : ids, quantity : Quantities]

ItemLists(ids) == SeqsUpTo(Lines(ids), MaxLines)

ExistingIds(n) == {Lower(i) : i \in 1..n}

ProductInputs ==
    [slug : {"vase"}, price : {1000}, stock : {1}, fragility_rating : {3}]

CheckoutBodies(ids) ==
    [cart_id : ids, insured : {TRUE}, premium_packaging : {FALSE}, payload_valid : BOOLEAN]

\* ------------------------------------------------------------- specification
\* The whole API, every handler interleaved with every other.
Next ==
    \/ \E p \in ProductInputs : create_product(p)
    \/ \E c \in ContentCollections : create_content(c)
    \/ \E items \in ItemLists(ExistingIds(Len(product))) :
          /\ Len(cart) < MaxCheckoutCarts
          /\ init_cart(items)
    \/ \E id \in CanonicalIdInputs(Len(cart)), items \in ItemLists(ExistingIds(Len(product))) :
          /\ cartUpdates < MaxCartUpdates
          /\ update_cart(id, items)
    \/ \E r \in 1..MaxCheckouts, b \in CheckoutBodies(CanonicalIdInputs(Len(cart))) :
          checkout_begin(r, b)
    \/ \E r \in 1..MaxCheckouts : checkout_decrement(r)
    \/ \E r \in 1..MaxCheckouts : checkout_fail(r)

Spec == Init /\ [][Next]_vars

\* The catalog alone: product and review writes and the product detail read.
CatalogProductInputs ==
    [slug : {"vase", "bowl"}, price : {1000}, stock : {0, 2}, fragility_rating : {3}]
        \cup [slug : {"vase"}, price : {1000, -1}, stock : {-1}, fragility_rating : {3}]
        \cup [slug : {"vase"}, price : {1000}, stock : {2}, fragility_rating : {0, 6}]

ReviewInputs(ids) == [product_id : ids, rating : {0, 5, 6}]

NextCatalog ==
    \/ \E p \in CatalogProductInputs : create_product(p)
    \/ \E rv \in ReviewInputs(IdInputs(Len(product))) : add_review(rv)
    \/ \E slug \in {"vase", "bowl"} : get_product_by_slug(slug)

SpecCatalog == Init /\ [][NextCatalog]_vars

\* The cart endpoints alone.  A cart line's product_id is any string: the cart
\* endpoints never resolve it.
CartLineInputs == [product_id : {Lower(1)}, quantity : {0, 1, 2}]

NextCart ==
    \/ \E items \in SeqsUpTo(CartLineInputs, MaxLines) : init_cart(items)
    \/ \E id \in IdInputs(Len(cart)), items \in SeqsUpTo(CartLineInputs, MaxLines) :
          update_cart(id, items)
    \/ \E id \in IdInputs(Len(cart)) : get_cart(id)

SpecCart == Init /\ [][NextCart]_vars

\* Checkout over a stocked catalog: one cart, written once, with every form of
\* product id a client can put in a line, and concurrent checkout requests.
Catalogue ==
    << [slug |-> "vase", price |-> 1000, stock |-> 3, fragility_rating |-> 3],
       [slug |-> "bowl", price |-> 1999, stock |-> 1, fragility_rating |-> 5] >>

InitCheckout ==
    /\ dbConnected = TRUE
    /\ product = Catalogue
    /\ createdStock = [i \in 1..Len(Catalogue) |-> Catalogue[i].stock]
    /\ cart = <<>>
    /\ order = <<>>
    /\ review = <<>>
    /\ content = 0
    /\ req = [r \in 1..MaxCheckouts |-> IdleReq]
    /\ response = NoResponse
    /\ writtenItems = <<>>
    /\ cartUpdates = 0

FullCheckoutBodies(ids) ==
    [cart_id : ids, insured : BOOLEAN, premium_packaging : BOOLEAN, payload_valid : BOOLEAN]

NextCheckout ==
    \/ \E items \in ItemLists(IdInputs(Len(product))) :
          /\ Len(cart) < MaxCheckoutCarts
          /\ init_cart(items)
    \/ \E r \in 1..MaxCheckouts, b \in FullCheckoutBodies(IdInputs(Len(cart))) :
          checkout_begin(r, b)
    \/ \E r \in 1..MaxCheckouts : checkout_decrement(r)
    \/ \E r \in 1..MaxCheckouts : checkout_fail(r)

SpecCheckout == InitCheckout /\ [][NextCheckout]_vars

\* =================================================================== claims
\* The cart a well-formed id string names, 0 when it names none.
CartOf(id) == IF ObjectIdValid(id) /\ ObjectId(id) \in 1..Len(cart) THEN ObjectId(id) ELSE 0

\* The detail text of an error response.
Detail(resp) == IF resp.status \in {0, 200} THEN "" ELSE resp.body[1]

\* A step in which a checkout request was refused before it inserted anything.
CheckoutRefused == response'.op = "checkout" /\ req' = req /\ response'.status # 200

OrdersAndStockUnchanged ==
    /\ order' = order
    /\ \A i \in 1..Len(product) : product'[i].stock = product[i].stock
    /\ Len(product') = Len(product)

\* C2 as stated, read with the store connected: a checkout whose cart id matches no
\* cart fails 404, one whose cart exists with an empty item list fails 400, and in
\* both cases the orders and every product's stock are as before.
C2_Original ==
    [][ (CheckoutRefused /\ dbConnected) =>
           /\ CartOf(response'.id) = 0 =>
                 response'.status = 404 /\ OrdersAndStockUnchanged
           /\ (CartOf(response'.id) # 0 /\ cart[CartOf(response'.id)].items = <<>>) =>
                 response'.status = 400 /\ OrdersAndStockUnchanged ]_vars

\* C2 amended: with the store connected, a checkout whose cart id is well-formed and
\* matches no cart fails 404 "Cart not found", one whose cart id is not a well-formed
\* id fails 400 "Invalid id", and one whose cart exists with an empty item list fails
\* 400 "Cart is empty"; in all three cases the orders and every product's stock are
\* as before.
C2_RejectedCheckoutHasNoEffect ==
    [][ (CheckoutRefused /\ dbConnected) =>
           /\ (ObjectIdValid(response'.id) /\ CartOf(response'.id) = 0) =>
                 /\ response'.status = 404 /\ Detail(response') = "Cart not found"
                 /\ OrdersAndStockUnchanged
           /\ ~ObjectIdValid(response'.id) =>
                 /\ response'.status = 400 /\ Detail(response') = "Invalid id"
                 /\ OrdersAndStockUnchanged
           /\ (CartOf(response'.id) # 0 /\ cart[CartOf(response'.id)].items = <<>>) =>
                 /\ response'.status = 400 /\ Detail(response') = "Cart is empty"
                 /\ OrdersAndStockUnchanged ]_vars

\* An empty cart was refused while the store already held an order and a
\* decremented product.
C2_Witness ==
    /\ response.op = "checkout" /\ response.status = 400
    /\ Detail(response) = "Cart is empty"
    /\ Len(order) >= 1
    /\ \E i \in 1..Len(product) : product[i].stock # createdStock[i]

\* C5: the order a checkout inserts has status "created" and the item list the cart
\* held when the checkout read it, and no step of any handler (a later cart update, a
\* later checkout, a catalog or content write) changes or removes a stored order.
C5_OrderIsImmutableSnapshot ==
    [][ /\ Len(order') >= Len(order)
        /\ \A i \in 1..Len(order) : order'[i] = order[i]
        /\ Len(order') # Len(order) =>
              /\ Len(order') = Len(order) + 1
              /\ order'[Len(order')].status = "created"
              /\ \E r \in 1..MaxCheckouts :
                    /\ req[r].pc = "idle" /\ req'[r].pc = "dec"
                    /\ req'[r].order_id = Len(order')
                    /\ CartOf(req'[r].cart_id) # 0
                    /\ order'[Len(order')].items = cart[CartOf(req'[r].cart_id)].items ]_vars

\* Two orders are stored, the cart was rewritten after the first was placed, and a
\* content document was written: the first order still holds the lines it was placed
\* with, which are no longer the cart's.
C5_Witness ==
    /\ Len(order) = 2
    /\ cartUpdates >= 1
    /\ content >= 1
    /\ order[1].items # cart[1].items
    /\ order[1].items # order[2].items
    /\ order[1].status = "created"

\* C6: every stored product's stock is >= 0 in every reachable state.
C6_StockNonNegative == \A i \in 1..Len(product) : product[i].stock >= 0

\* C3: add review with a product_id that resolves to no existing product (a string
\* that is not a well-formed id included) fails 404 and stores nothing; a review is
\* stored only when the product exists.  Read with the store connected and a body
\* that passes the Review schema.
C3_AddReviewOfUnknownProductIs404 ==
    [][ (response'.op = "add_review" /\ dbConnected /\ Detail(response') # "validation") =>
           LET id == response'.id
               resolves == ObjectIdValid(id) /\ ObjectId(id) \in 1..Len(product)
           IN  /\ ~resolves => response'.status = 404 /\ review' = review
               /\ review' # review => resolves ]_vars

\* C7: no two stored products have the same slug.
C7_SlugsUnique ==
    \A i, j \in 1..Len(product) : product[i].slug = product[j].slug => i = j

\* A step in which an update-cart request with a schema-valid body was answered.
UpdateAnswered == response'.op = "update_cart" /\ Detail(response') # "validation"

CartsUnchanged == cart' = cart

\* Every stored cart holds the item list last written to it, and a fetch returns it.
CartHoldsLastWrite ==
    /\ Len(cart) = Len(writtenItems)
    /\ \A c \in 1..Len(cart) : cart[c].items = writtenItems[c]
    /\ (response.op = "get_cart" /\ response.status = 200) =>
          response.body = writtenItems[ObjectId(response.id)]

\* C4 as stated, read with the store connected: a fetch returns the list of the last
\* successful update (or of init), and an update whose id matches no existing cart
\* fails 404 and neither creates nor changes a cart.
C4_Original ==
    /\ []CartHoldsLastWrite
    /\ [][ (UpdateAnswered /\ dbConnected /\ CartOf(response'.id) = 0) =>
              response'.status = 404 /\ CartsUnchanged ]_vars

\* C4 amended: with the store connected, a fetch returns exactly the list of the last
\* successful update to that id (or the list given at init); a successful update
\* replaces the whole list of its cart and leaves every other cart alone; an update
\* whose id is well-formed and matches no cart fails 404 and one whose id is not a
\* well-formed id fails 400, and neither creates nor changes a cart.
C4_UpdateReplacesItemList ==
    /\ []CartHoldsLastWrite
    /\ [][ (UpdateAnswered /\ dbConnected) =>
              LET id == response'.id
              IN  /\ (ObjectIdValid(id) /\ CartOf(id) = 0) =>
                        response'.status = 404 /\ CartsUnchanged
                  /\ ~ObjectIdValid(id) => response'.status = 400 /\ CartsUnchanged
                  /\ CartOf(id) # 0 =>
                        /\ response'.status = 200
                        /\ Len(cart') = Len(cart)
                        /\ cart'[CartOf(id)].items = writtenItems'[CartOf(id)]
                        /\ \A c \in 1..Len(cart) : c # CartOf(id) => cart'[c] = cart[c] ]_vars

\* A cart that has been updated was fetched and came back empty, while another
\* cart still holds its lines.
C4_Witness ==
    /\ response.op = "get_cart" /\ response.status = 200 /\ response.body = <<>>
    /\ cartUpdates >= 1
    /\ \E c \in 1..Len(cart) : cart[c].items # <<>>

\* ------------------------------------------------------ checkout accounting
\* The quantity the first k lines of an item list order of product oid.
LineTotal(items, k, oid) ==
    SumSeq([i \in 1..k |->
              IF ObjectIdValid(items[i].product_id) /\ ObjectId(items[i].product_id) = oid
              THEN items[i].quantity ELSE 0])

\* What request r has subtracted from product oid so far, and what its lines order.
Decremented(r, oid) == LineTotal(req[r].items, req[r].k, oid)
Ordered(r, oid) == LineTotal(req[r].items, Len(req[r].items), oid)

Requests == 1..MaxCheckouts

\* C9: the order is stored before any stock update; the updates go line by line and
\* are never undone: a request that failed after k of its n updates leaves its order
\* stored and exactly its first k lines subtracted, a request that returned has all
\* n subtracted, so every product's stock is what it was created with less the
\* lines applied so far by every request.
C9_OrderThenPerLineDecrements ==
    /\ \A r \in Requests : req[r].pc # "idle" =>
          /\ req[r].order_id \in 1..Len(order)
          /\ order[req[r].order_id].items = req[r].items
          /\ req[r].pc = "done" => req[r].k = Len(req[r].items)
          /\ req[r].pc \in {"dec", "failed"} => req[r].k < Len(req[r].items)
    /\ \A p \in 1..Len(product) :
          product[p].stock =
             createdStock[p] - SumSeq([r \in Requests |-> Decremented(r, p)])

\* A request failed after the first of its two updates, which name two different
\* products, with no other request begun: its order is stored, the first product is
\* lower by the first line's quantity and the second is as created.
C9_Witness ==
    \E r1 \in Requests :
       /\ req[r1].pc = "failed" /\ req[r1].k = 1 /\ Len(req[r1].items) = 2
       /\ ObjectId(req[r1].items[1].product_id) = 1
       /\ ObjectId(req[r1].items[2].product_id) = 2
       /\ req[r1].items[1].quantity = 2
       /\ product[1].stock = createdStock[1] - 2
       /\ product[2].stock = createdStock[2]
       /\ req[r1].order_id \in 1..Len(order)
       /\ \A r \in Requests \ {r1} : req[r].pc = "idle"

AllReturned == \A r \in Requests : req[r].pc \in {"idle", "done"}

\* Requests r1 and r2 were in flight together: r2 priced its cart, reading product p,
\* before r1 (which began first) had subtracted anything from p.
Overlapped(r1, r2, p) ==
    /\ r1 < r2
    /\ Ordered(r1, p) > 0 /\ Ordered(r2, p) > 0
    /\ req[r2].stock_read[p] = createdStock[p]

\* C8 as stated, in the form a run can refute: two checkouts on one product that
\* were in flight together and both returned leave the product's stock different
\* from its initial stock less the two checkouts' quantities.
C8_Original ==
    \A r1, r2 \in Requests : \A p \in 1..Len(product) :
       (req[r1].pc = "done" /\ req[r2].pc = "done" /\ Overlapped(r1, r2, p)
          /\ \A r \in Requests \ {r1, r2} : req[r].pc = "idle")
       => product[p].stock # createdStock[p] - Ordered(r1, p) - Ordered(r2, p)

\* C8 amended: no interleaving of checkouts loses a stock update: whenever every
\* checkout that began has returned, each product's stock is its initial stock less
\* the sum of the quantities of all their lines that name it.
C8_NoLostUpdate ==
    AllReturned =>
       \A p \in 1..Len(product) :
          product[p].stock = createdStock[p] - SumSeq([r \in Requests |-> Ordered(r, p)])

\* Two checkouts naming product 1 were in flight together and both returned.
C8_Witness ==
    \E r1, r2 \in Requests :
       req[r1].pc = "done" /\ req[r2].pc = "done" /\ Overlapped(r1, r2, 1)

LinesWellFormed(items) == \A i \in 1..Len(items) : ObjectIdValid(items[i].product_id)

\* C10: no step of a checkout writes the cart; a cart that exists, has lines and
\* names well-formed product ids is refused only for an address or payment that
\* does not validate, whatever was checked out before; and two checkouts of the
\* same cart id leave two distinct stored orders and, once both returned, the stock
\* of every product lower by the lines of both.
C10_CheckoutLeavesCartReusable ==
    /\ [][ (req' # req \/ response'.op = "checkout") => cart' = cart ]_vars
    /\ [][ ( /\ CheckoutRefused /\ dbConnected
             /\ CartOf(response'.id) # 0
             /\ cart[CartOf(response'.id)].items # <<>>
             /\ LinesWellFormed(cart[CartOf(response'.id)].items) )
           => Detail(response') = "ValidationError" ]_vars
    /\ [](\A r1, r2 \in Requests :
            ( /\ r1 < r2 /\ req[r1].pc # "idle" /\ req[r2].pc # "idle"
              /\ CartOf(req[r1].cart_id) = CartOf(req[r2].cart_id) )
            => /\ req[r1].order_id # req[r2].order_id
               /\ {req[r1].order_id, req[r2].order_id} \subseteq 1..Len(order)
               /\ (req[r1].pc = "done" /\ req[r2].pc = "done") =>
                     \A p \in 1..Len(product) :
                        product[p].stock <=
                           createdStock[p] - Ordered(r1, p) - Ordered(r2, p))

\* The same cart was checked out, the request returned, and then it was checked out
\* again: the second request read product 1 already decremented by the first, and
\* returned too; the cart still holds its lines.
C10_Witness ==
    \E r1, r2 \in Requests :
       /\ r1 < r2 /\ req[r1].pc = "done" /\ req[r2].pc = "done"
       /\ CartOf(req[r1].cart_id) # 0
       /\ CartOf(req[r1].cart_id) = CartOf(req[r2].cart_id)
       /\ Ordered(r1, 1) > 0
       /\ req[r2].stock_read[1] = createdStock[1] - Ordered(r1, 1)
       /\ product[1].stock = createdStock[1] - 2 * Ordered(r1, 1)
       /\ cart[CartOf(req[r1].cart_id)].items = req[r1].items
       /\ req[r1].order_id # req[r2].order_id

\* ------------------------------------------------------------------ pricing
ProductsPresent(items) ==
    \A i \in 1..Len(items) :
       ObjectIdValid(items[i].product_id) /\ ObjectId(items[i].product_id) \in 1..Len(product)

\* The total the pricing rules give an item list whose products are all stored:
\* subtotal = sum of price x quantity, avg_fragility = mean of the lines' fragility,
\* insurance = round(subtotal x (0.02 + 0.02 x (avg - 1)), 2) if insured,
\* shipping = round(9.0 + (avg - 1) x 2.5, 2), fee = 14.0 if premium packaging.
PricedTotal(items, insured, premium) ==
    LET n    == Len(items)
        sub  == SumSeq([i \in 1..n |->
                   product[ObjectId(items[i].product_id)].price * items[i].quantity])
        fsum == SumSeq([i \in 1..n |->
                   product[ObjectId(items[i].product_id)].fragility_rating])
        ins  == IF insured THEN Round(sub * 2 * fsum, 100 * n) ELSE 0
        ship == Round(900 * n + 250 * (fsum - n), n)
        fee  == IF premium THEN 1400 ELSE 0
    IN  Round(sub + ship + ins + fee, 1)

\* One line of quantity 2 of a product priced 10.00 with fragility 3.
IsExampleCart(items) ==
    /\ Len(items) = 1 /\ items[1].quantity = 2
    /\ ProductsPresent(items)
    /\ product[ObjectId(items[1].product_id)].price = 1000
    /\ product[ObjectId(items[1].product_id)].fragility_rating = 3

\* C1: the total of every order placed for a cart whose products are all stored is
\* the one the pricing rules give; for one line of quantity 2, price 10.00,
\* fragility 3, insured, without premium packaging, it is 35.20.
C1_TotalFollowsPricingRules ==
    \A i \in 1..Len(order) :
       LET o == order[i]
       IN  ProductsPresent(o.items) =>
              /\ o.amount_total =
                    PricedTotal(o.items, o.shipping.insured, o.shipping.premium_packaging)
              /\ (IsExampleCart(o.items) /\ o.shipping.insured
                    /\ ~o.shipping.premium_packaging) => o.amount_total = 3520

\* The same over the orders whose lines all carry the id text the store hands out.
CanonicalLines(items) ==
    \A i \in 1..Len(items) : items[i].product_id = Str(ObjectId(items[i].product_id))

PricingOnCanonicalIds ==
    \A i \in 1..Len(order) :
       LET o == order[i]
       IN  (ProductsPresent(o.items) /\ CanonicalLines(o.items)) =>
              /\ o.amount_total =
                    PricedTotal(o.items, o.shipping.insured, o.shipping.premium_packaging)
              /\ (IsExampleCart(o.items) /\ o.shipping.insured
                    /\ ~o.shipping.premium_packaging) => o.amount_total = 3520

\* The example cart of the pricing rules was ordered under its canonical id and
\* priced 35.20.
ExampleOrderPlaced ==
    \E i \in 1..Len(order) :
       /\ IsExampleCart(order[i].items) /\ CanonicalLines(order[i].items)
       /\ order[i].shipping.insured /\ ~order[i].shipping.premium_packaging
       /\ order[i].amount_subtotal = 2000 /\ order[i].amount_insurance = 120
       /\ order[i].amount_shipping = 1400 /\ order[i].amount_total = 3520

====
